---- MODULE Spec2Model ----
(***************************************************************************)
(* SequentialRunner._run (src/kedro/runner/sequential_runner.py).          *)
(*                                                                         *)
(* One run walks the topologically sorted node list of a pipeline, calls   *)
(* run_node on each node, and after every successful node decrements the   *)
(* per-dataset load counts and releases the datasets the rest of the run   *)
(* no longer needs.  The catalog, run_node and the resume suggestion are   *)
(* collaborators: the model records the calls made to them.                *)
(*                                                                         *)
(* A pipeline is given by its node list: topologically sorted, every       *)
(* dataset produced by at most one node, no node reading what it writes.   *)
(* pipeline.inputs() and pipeline.outputs() are its free inputs and free   *)
(* outputs.  run_node either returns or raises; _suggest_resume_scenario   *)
(* and catalog.release return.                                             *)
(*                                                                         *)
(* All per-run state is indexed by a run id, so that one run (Spec) and    *)
(* two interleaved runs with a catalog each (SpecTwo) share the actions.   *)
(***************************************************************************)
EXTENDS Integers, Sequences, FiniteSets, TLC

\* ------------------------------------------------------------------ bounds
\* one run: dataset keys, nodes of a pipeline, and dataset references (the
\* entries of all the inputs and outputs lists of a pipeline together)
NumKeys == 2
MaxNodes == 3
MaxRefs == 4
\* two interleaved runs
NumKeysTwo == 1
MaxNodesTwo == 2
MaxRefsTwo == 3

Keys == 1..NumKeys
KeysTwo == 1..NumKeysTwo
AllKeys == Keys \cup KeysTwo
RunIds == {1, 2}
Exceptions == {"E1", "E2"}

\* ----------------------------------------------------------------- helpers
Range(s) == {s[i] : i \in 1..Len(s)}

\* the set S, written out element by element
Enumerated(S) == {x : x \in S}

SeqsUpTo(S, n) == Enumerated(UNION {[1..m -> S] : m \in 0..n})

NoDuplicates(s) == \A i, j \in 1..Len(s) : s[i] = s[j] => i = j

\* number of positions of s that hold d
Occurrences(s, d) == Cardinality({i \in 1..Len(s) : s[i] = d})

RECURSIVE SumOver(_, _, _)
\* sum of f[i] for i in lo..hi
SumOver(f, lo, hi) == IF lo > hi THEN 0 ELSE f[lo] + SumOver(f, lo + 1, hi)

\* --------------------------------------------------------------- pipelines
\* Node.inputs is a list (a key may repeat), Node.outputs a list of distinct
\* keys; a node's outputs are disjoint from its inputs, and a node has an
\* input or an output.
NodeRefs(nd) == Len(nd.inputs) + Len(nd.outputs)

NodeSet(ks, w) ==
    {nd \in Enumerated([inputs : SeqsUpTo(ks, w),
                        outputs : {s \in SeqsUpTo(ks, w) : NoDuplicates(s)}]) :
        /\ NodeRefs(nd) \in 1..w
        /\ Range(nd.inputs) \cap Range(nd.outputs) = {}}

AllInputs(ns) == UNION {Range(ns[i].inputs) : i \in 1..Len(ns)}

AllOutputs(ns) == UNION {Range(ns[i].outputs) : i \in 1..Len(ns)}

\* pipeline.inputs(): the free inputs, consumed but produced by no node
PipelineInputs(ns) == AllInputs(ns) \ AllOutputs(ns)

\* pipeline.outputs(): the free outputs, produced but consumed by no node
PipelineOutputs(ns) == AllOutputs(ns) \ AllInputs(ns)

PipelineRefs(ns) ==
    SumOver([i \in 1..Len(ns) |-> NodeRefs(ns[i])], 1, Len(ns))

\* nd may follow the sorted node list ns: what it produces is produced by no
\* earlier node (a dataset has one producer) and read by no earlier node
\* (a producer precedes its consumers).
CanAppend(ns, nd) ==
    Range(nd.outputs) \cap (AllInputs(ns) \cup AllOutputs(ns)) = {}

\* the nodes of w dataset references or fewer, by number of references
NodesByRefs(ks, w) ==
    [k \in 1..w |-> {nd \in NodeSet(ks, w) : NodeRefs(nd) = k}]

Nodes == NodesByRefs(Keys, MaxRefs)

NodesTwo == NodesByRefs(KeysTwo, MaxRefsTwo)

RECURSIVE PipelinesOfLen(_, _, _)
\* pipeline.nodes of the pipelines of n nodes, taken from nds, with at most
\* w dataset references
PipelinesOfLen(nds, n, w) ==
    IF n = 0 THEN {<< >>}
    ELSE Enumerated(UNION {
            {Append(ns, nd) :
                nd \in {x \in UNION {nds[k] : k \in 1..(w - PipelineRefs(ns))} :
                          CanAppend(ns, x)}} :
            ns \in PipelinesOfLen(nds, n - 1, w)})

Pipelines ==
    Enumerated(UNION {PipelinesOfLen(Nodes, n, MaxRefs) : n \in 0..MaxNodes})

PipelinesTwo ==
    Enumerated(
        UNION {PipelinesOfLen(NodesTwo, n, MaxRefsTwo) : n \in 0..MaxNodesTwo})

\* ------------------------------------------------------------------- state
VARIABLES
    active,       \* the run ids that take part
    nodes,        \* nodes[r]: pipeline.nodes
    behaviour,    \* behaviour[r][i]: what run_node did on node i, "?" before
    pc,           \* pc[r]: position of run r in _run
    iter,         \* iter[r]: nodes the enumerate() iterator has yielded
    exec_index,   \* exec_index[r]
    node,         \* node[r]: position in nodes[r] of the loop's node
    ds,           \* ds[r]: position in node.inputs / node.outputs
    done_nodes,   \* done_nodes[f]: done_nodes of the call with frame f
    load_counts,  \* load_counts[f][d]: load_counts of the call with frame f
    exc,          \* exc[r]: the exception being handled, or "none"
    executed,     \* executed[r]: run_node calls, in order
    released,     \* released[r]: catalog.release calls, in order
    reported,     \* reported[r]: _suggest_resume_scenario calls, in order
    result,       \* result[r]: "none", "returned" or the exception raised
    is_async,     \* is_async[r]: self._is_async of the runner of run r
    loaded,       \* loaded[r]: the <<node, position>> inputs loaded so far
    saved         \* saved[r]: the <<node, position>> outputs saved so far

\* what run_node does inside; followed only under SpecAsync
ioVars == <<is_async, loaded, saved>>

vars == <<active, nodes, behaviour, pc, iter, exec_index, node, ds,
          done_nodes, load_counts, exc, executed, released, reported, result,
          ioVars>>

\* ----------------------------------------------------- the code's formulas
\* one frame for every call: done_nodes and load_counts as module globals
SharedFrame(r) == 1

\* done_nodes and load_counts are locals of _run: every call has its own
Frame(r) == r

\* a count of the nodes that list d, not of d's occurrences
LoadCountsPerNode(ns) ==
    [d \in AllKeys |->
        Cardinality({i \in 1..Len(ns) : d \in Range(ns[i].inputs)})]

\* Counter(chain.from_iterable(n.inputs for n in nodes))
LoadCountsInit(ns) ==
    [d \in AllKeys |->
        SumOver([i \in 1..Len(ns) |-> Occurrences(ns[i].inputs, d)],
                1, Len(ns))]

\* the node list walked from its end
EnumerateReversed(ns, i) == Len(ns) + 1 - i

\* enumerate(nodes): the i-th node yielded is the i-th node of the list
Enumerate(ns, i) == i

\* the set rebound to the last node instead of grown by it
DoneAddOnly(done, nd) == {nd}

\* done_nodes.add(node)
DoneAdd(done, nd) == done \cup {nd}

\* the failing node reported as done
ResumeArgWithNode(done, nd) == done \cup {nd}

\* the done_nodes argument of _suggest_resume_scenario
ResumeArg(done, nd) == done

\* the exception swallowed: control falls through to the clean-up
AfterRunNodeSwallow(raised) == "inputs"

\* a failing node tried again
AfterRunNodeRetry(raised) == IF raised THEN "run_node" ELSE "inputs"

\* try/except around run_node: where control goes next
AfterRunNode(raised) == IF raised THEN "except" ELSE "inputs"

\* raise RunnerError(...) from e
ReraiseWrapped(e) == "RunnerError"

\* raise: the exception that leaves _run
Reraise(e) == e

\* the key dropped at its first load
DecrementToZero(lc, d) == [lc EXCEPT ![d] = 0]

\* every key counted down, not only the one loaded
DecrementEvery(lc, d) == [k \in DOMAIN lc |-> lc[k] - 1]

\* the count taken down by two
DecrementTwice(lc, d) == [lc EXCEPT ![d] = @ - 2]

\* load_counts[dataset] -= 1
Decrement(lc, d) == [lc EXCEPT ![d] = @ - 1]

\* the boundary test left out
InputReleasableNoBoundary(lc, d, ns) == lc[d] < 1

\* the count compared with 0 instead of 1
InputReleasableLate(lc, d, ns) == lc[d] < 0 /\ d \notin PipelineInputs(ns)

\* load_counts[dataset] < 1 and dataset not in pipeline.inputs()
InputReleasable(lc, d, ns) == lc[d] < 1 /\ d \notin PipelineInputs(ns)

\* the boundary test left out
OutputReleasableNoBoundary(lc, d, ns) == lc[d] < 1

\* load_counts[dataset] < 1 and dataset not in pipeline.outputs()
OutputReleasable(lc, d, ns) == lc[d] < 1 /\ d \notin PipelineOutputs(ns)

\* catalog.release(dataset), called while node nd is the loop's node
Release(log, d, nd) == Append(log, [key |-> d, by |-> nd])

\* ------------------------------------------------------------------ start
\* run_node on a node does the same in every run of the same pipeline: o can
\* be the outcome of run_node on the loop's node of run r
SameOutcome(r, o) ==
    \A q \in active :
        nodes[q] = nodes[r] => behaviour[q][node[r]] \in {"?", o}

\* the runs of DOMAIN pl start, run r on the pipeline pl[r], the runs of as
\* with is_async set
InitRun(pl, as) ==
    /\ active = DOMAIN pl
    /\ is_async = [r \in RunIds |-> r \in as]
    /\ loaded = [r \in RunIds |-> {}]
    /\ saved = [r \in RunIds |-> {}]
    /\ nodes = [r \in RunIds |-> IF r \in DOMAIN pl THEN pl[r] ELSE << >>]
    /\ behaviour = [r \in RunIds |->
                        IF r \in DOMAIN pl
                        THEN [i \in 1..Len(pl[r]) |-> "?"]
                        ELSE << >>]
    /\ pc = [r \in RunIds |-> IF r \in DOMAIN pl THEN "start" ELSE "idle"]
    /\ iter = [r \in RunIds |-> 0]
    /\ exec_index = [r \in RunIds |-> 0]
    /\ node = [r \in RunIds |-> 0]
    /\ ds = [r \in RunIds |-> 0]
    /\ done_nodes = [r \in RunIds |-> {}]
    /\ load_counts = [r \in RunIds |-> [d \in AllKeys |-> 0]]
    /\ exc = [r \in RunIds |-> "none"]
    /\ executed = [r \in RunIds |-> << >>]
    /\ released = [r \in RunIds |-> << >>]
    /\ reported = [r \in RunIds |-> << >>]
    /\ result = [r \in RunIds |-> "none"]

\* the pipelines made of consecutive nodes of ns: ns itself, and the
\* pipelines that run a slice of it
SubPipelines(ns) ==
    {SubSeq(ns, a, b) : a \in 1..(Len(ns) + 1), b \in 0..Len(ns)}

Init == \E ns \in Pipelines : InitRun(1 :> ns, {})

\* run 1 on a pipeline, run 2 on the same one or on a slice of it
InitTwo ==
    \E ns \in PipelinesTwo : \E sub \in SubPipelines(ns) :
        InitRun((1 :> ns) @@ (2 :> sub), {})

\* run 1 with is_async unset, run 2 with is_async set
InitAsync == \E ns \in PipelinesTwo : InitRun((1 :> ns) @@ (2 :> ns), {2})

\* ---------------------------------------------------------------- actions
\* nodes = pipeline.nodes; done_nodes = set(); load_counts = Counter(...)
Begin(r) ==
    /\ pc[r] = "start"
    /\ done_nodes' = [done_nodes EXCEPT ![Frame(r)] = {}]
    /\ load_counts' =
          [load_counts EXCEPT ![Frame(r)] = LoadCountsInit(nodes[r])]
    /\ pc' = [pc EXCEPT ![r] = "for"]
    /\ UNCHANGED ioVars
    /\ UNCHANGED <<active, nodes, behaviour, iter, exec_index, node, ds, exc,
                   executed, released, reported, result>>

\* for exec_index, node in enumerate(nodes): the next node
ForNext(r) ==
    /\ pc[r] = "for"
    /\ iter[r] < Len(nodes[r])
    /\ exec_index' = [exec_index EXCEPT ![r] = iter[r]]
    /\ node' = [node EXCEPT ![r] = Enumerate(nodes[r], iter[r] + 1)]
    /\ iter' = [iter EXCEPT ![r] = @ + 1]
    /\ pc' = [pc EXCEPT ![r] = "run_node"]
    /\ UNCHANGED ioVars
    /\ UNCHANGED <<active, nodes, behaviour, ds, done_nodes, load_counts, exc,
                   executed, released, reported, result>>

\* the loop is exhausted: _run returns
ForEnd(r) ==
    /\ pc[r] = "for"
    /\ iter[r] >= Len(nodes[r])
    /\ pc' = [pc EXCEPT ![r] = "returned"]
    /\ result' = [result EXCEPT ![r] = "returned"]
    /\ UNCHANGED ioVars
    /\ UNCHANGED <<active, nodes, behaviour, iter, exec_index, node, ds,
                   done_nodes, load_counts, exc, executed, released, reported>>

\* run_node(...) returns; done_nodes.add(node)
RunNodeOk(r) ==
    /\ pc[r] = "run_node"
    /\ SameOutcome(r, "ok")
    /\ behaviour' = [behaviour EXCEPT ![r][node[r]] = "ok"]
    /\ executed' = [executed EXCEPT ![r] = Append(@, node[r])]
    /\ done_nodes' = [done_nodes EXCEPT ![Frame(r)] = DoneAdd(@, node[r])]
    /\ pc' = [pc EXCEPT ![r] = AfterRunNode(FALSE)]
    /\ ds' = [ds EXCEPT ![r] = 1]
    /\ UNCHANGED ioVars
    /\ UNCHANGED <<active, nodes, iter, exec_index, node, load_counts, exc,
                   released, reported, result>>

\* run_node(...) raises: control enters the except clause
RunNodeRaise(r) ==
    /\ pc[r] = "run_node"
    /\ \E e \in Exceptions :
          /\ SameOutcome(r, e)
          /\ behaviour' = [behaviour EXCEPT ![r][node[r]] = e]
          /\ exc' = [exc EXCEPT ![r] = e]
    /\ executed' = [executed EXCEPT ![r] = Append(@, node[r])]
    /\ pc' = [pc EXCEPT ![r] = AfterRunNode(TRUE)]
    /\ ds' = [ds EXCEPT ![r] = 1]
    /\ UNCHANGED ioVars
    /\ UNCHANGED <<active, nodes, iter, exec_index, node, done_nodes,
                   load_counts, released, reported, result>>

\* self._suggest_resume_scenario(pipeline, done_nodes, catalog)
SuggestResume(r) ==
    /\ pc[r] = "except"
    /\ reported' =
          [reported EXCEPT
              ![r] = Append(@, ResumeArg(done_nodes[Frame(r)], node[r]))]
    /\ pc' = [pc EXCEPT ![r] = "raise"]
    /\ UNCHANGED ioVars
    /\ UNCHANGED <<active, nodes, behaviour, iter, exec_index, node, ds,
                   done_nodes, load_counts, exc, executed, released, result>>

\* raise
Raise(r) ==
    /\ pc[r] = "raise"
    /\ result' = [result EXCEPT ![r] = Reraise(exc[r])]
    /\ pc' = [pc EXCEPT ![r] = "raised"]
    /\ UNCHANGED ioVars
    /\ UNCHANGED <<active, nodes, behaviour, iter, exec_index, node, ds,
                   done_nodes, load_counts, exc, executed, released, reported>>

\* for dataset in node.inputs: one iteration
NodeInput(r) ==
    /\ pc[r] = "inputs"
    /\ ds[r] <= Len(nodes[r][node[r]].inputs)
    /\ LET dataset == nodes[r][node[r]].inputs[ds[r]]
           lc == Decrement(load_counts[Frame(r)], dataset)
       IN  /\ load_counts' = [load_counts EXCEPT ![Frame(r)] = lc]
           /\ released' =
                 IF InputReleasable(lc, dataset, nodes[r])
                 THEN [released EXCEPT ![r] = Release(@, dataset, node[r])]
                 ELSE released
    /\ ds' = [ds EXCEPT ![r] = @ + 1]
    /\ UNCHANGED ioVars
    /\ UNCHANGED <<active, nodes, behaviour, pc, iter, exec_index, node,
                   done_nodes, exc, executed, reported, result>>

\* node.inputs is exhausted: on to node.outputs
InputsEnd(r) ==
    /\ pc[r] = "inputs"
    /\ ds[r] > Len(nodes[r][node[r]].inputs)
    /\ pc' = [pc EXCEPT ![r] = "outputs"]
    /\ ds' = [ds EXCEPT ![r] = 1]
    /\ UNCHANGED ioVars
    /\ UNCHANGED <<active, nodes, behaviour, iter, exec_index, node,
                   done_nodes, load_counts, exc, executed, released, reported,
                   result>>

\* for dataset in node.outputs: one iteration
NodeOutput(r) ==
    /\ pc[r] = "outputs"
    /\ ds[r] <= Len(nodes[r][node[r]].outputs)
    /\ LET dataset == nodes[r][node[r]].outputs[ds[r]]
       IN  released' =
              IF OutputReleasable(load_counts[Frame(r)], dataset, nodes[r])
              THEN [released EXCEPT ![r] = Release(@, dataset, node[r])]
              ELSE released
    /\ ds' = [ds EXCEPT ![r] = @ + 1]
    /\ UNCHANGED ioVars
    /\ UNCHANGED <<active, nodes, behaviour, pc, iter, exec_index, node,
                   done_nodes, load_counts, exc, executed, reported, result>>

\* node.outputs is exhausted: log "Completed %d out of %d tasks", loop
OutputsEnd(r) ==
    /\ pc[r] = "outputs"
    /\ ds[r] > Len(nodes[r][node[r]].outputs)
    /\ pc' = [pc EXCEPT ![r] = "for"]
    /\ UNCHANGED ioVars
    /\ UNCHANGED <<active, nodes, behaviour, iter, exec_index, node, ds,
                   done_nodes, load_counts, exc, executed, released, reported,
                   result>>

Step(r) ==
    \/ Begin(r)
    \/ ForNext(r)
    \/ ForEnd(r)
    \/ RunNodeOk(r)
    \/ RunNodeRaise(r)
    \/ SuggestResume(r)
    \/ Raise(r)
    \/ NodeInput(r)
    \/ InputsEnd(r)
    \/ NodeOutput(r)
    \/ OutputsEnd(r)

Next == \E r \in active : Step(r)

\* one run
Spec == Init /\ [][Next]_vars

\* two interleaved runs of one pipeline, each with its own catalog
SpecTwo == InitTwo /\ [][Next]_vars

\* one run, whose thread takes its next step as long as it has one: every
\* call made by _run returns or raises
SpecFair == Init /\ [][Next]_vars /\ WF_vars(Next)

\* ------------------------------------------- run_node, step by step
\* In Spec and SpecTwo a run_node call is one step (RunNodeOk, RunNodeRaise)
\* and its loads and saves are not followed.  Under SpecAsync the call loads
\* every input, runs the node's function and saves every output, one
\* dataset a step: in list order, or in any order when is_async is set (the
\* loads overlap each other, and so do the saves).
Min(S) == CHOOSE x \in S : \A y \in S : x <= y

\* the inputs of the loop's node not loaded yet, as positions of node.inputs
PendingLoads(r) ==
    {p \in 1..Len(nodes[r][node[r]].inputs) : <<node[r], p>> \notin loaded[r]}

\* the outputs of the loop's node not saved yet
PendingSaves(r) ==
    {p \in 1..Len(nodes[r][node[r]].outputs) : <<node[r], p>> \notin saved[r]}

\* run_node returning while its loads and saves are still under way
JoinedEarly(r) == TRUE

\* every load and every save of the run_node call has resolved
Joined(r) == PendingLoads(r) = {} /\ PendingSaves(r) = {}

\* one input of the loop's node is loaded
LoadInput(r) ==
    /\ pc[r] = "run_node"
    /\ \E p \in PendingLoads(r) :
          /\ is_async[r] \/ p = Min(PendingLoads(r))
          /\ loaded' = [loaded EXCEPT ![r] = @ \cup {<<node[r], p>>}]
    /\ UNCHANGED <<is_async, saved>>
    /\ UNCHANGED <<active, nodes, behaviour, pc, iter, exec_index, node, ds,
                   done_nodes, load_counts, exc, executed, released, reported,
                   result>>

\* the inputs are loaded and the function has run: one output is saved
SaveOutput(r) ==
    /\ pc[r] = "run_node"
    /\ PendingLoads(r) = {}
    /\ \E p \in PendingSaves(r) :
          /\ is_async[r] \/ p = Min(PendingSaves(r))
          /\ saved' = [saved EXCEPT ![r] = @ \cup {<<node[r], p>>}]
    /\ UNCHANGED <<is_async, loaded>>
    /\ UNCHANGED <<active, nodes, behaviour, pc, iter, exec_index, node, ds,
                   done_nodes, load_counts, exc, executed, released, reported,
                   result>>

\* run_node returns, its loads and saves resolved; done_nodes.add(node)
RunNodeJoin(r) == pc[r] = "run_node" /\ Joined(r) /\ RunNodeOk(r)

StepAsync(r) ==
    \/ Begin(r)
    \/ ForNext(r)
    \/ ForEnd(r)
    \/ LoadInput(r)
    \/ SaveOutput(r)
    \/ RunNodeJoin(r)
    \/ RunNodeRaise(r)
    \/ SuggestResume(r)
    \/ Raise(r)
    \/ NodeInput(r)
    \/ InputsEnd(r)
    \/ NodeOutput(r)
    \/ OutputsEnd(r)

NextAsync == \E r \in active : StepAsync(r)

\* two interleaved runs of one pipeline, the first with is_async unset and
\* the second with is_async set, run_node followed step by step
SpecAsync == InitAsync /\ [][NextAsync]_vars

\* ------------------------------------------------- notions of the claims
Max(S) == CHOOSE x \in S : \A y \in S : y <= x

\* free_inputs(P) and free_outputs(P) together: the boundary
Boundary(ns) == PipelineInputs(ns) \cup PipelineOutputs(ns)

\* the datasets some node references that are not on the boundary
Intermediates(ns) == (AllInputs(ns) \cup AllOutputs(ns)) \ Boundary(ns)

\* the nodes that reference d, as an input or as an output
Referencing(ns, d) ==
    {i \in 1..Len(ns) : d \in Range(ns[i].inputs) \cup Range(ns[i].outputs)}

\* the nodes that list d as an input
Consumers(ns, d) == {i \in 1..Len(ns) : d \in Range(ns[i].inputs)}

\* the nodes that list d as an output
Producers(ns, d) == {i \in 1..Len(ns) : d \in Range(ns[i].outputs)}

\* the catalog.release(d) calls of run r, as positions of its log
ReleasesOf(r, d) == {i \in 1..Len(released[r]) : released[r][i].key = d}

ReleasedKeys(r) == {released[r][i].key : i \in 1..Len(released[r])}

\* run r is between two nodes, or over: not inside a node's clean-up
BetweenNodes(r) ==
    pc[r] \in {"for", "run_node", "except", "raise", "raised", "returned"}

\* the node on which run_node has raised, 0 if it has raised on none
FailingNode(r) ==
    IF \E i \in 1..Len(behaviour[r]) : behaviour[r][i] \in Exceptions
    THEN CHOOSE i \in 1..Len(behaviour[r]) : behaviour[r][i] \in Exceptions
    ELSE 0

\* ----------------------------------------------------------------- claims
\* C1: no dataset of free_inputs(P) or free_outputs(P) is ever released, in
\* a successful or in a failing run, a fully consumed free input included.
C1_BoundaryNeverReleased ==
    \A r \in active : ReleasedKeys(r) \cap Boundary(nodes[r]) = {}

\* a free input whose count has reached 0 and whose consumer has finished
C1_Witness ==
    /\ pc[1] = "returned"
    /\ \E d \in PipelineInputs(nodes[1]) :
          /\ LoadCountsInit(nodes[1])[d] >= 2
          /\ load_counts[Frame(1)][d] = 0
    /\ PipelineOutputs(nodes[1]) # {}

\* C2: a referenced dataset that is not on the boundary is released only
\* once the last node that references it has completed, never twice, and
\* exactly once by the time a successful run returns.
C2_IntermediateReleasedOnce ==
    \A r \in active : \A d \in Intermediates(nodes[r]) :
        /\ Cardinality(ReleasesOf(r, d)) <= 1
        /\ ReleasesOf(r, d) # {} =>
              Max(Referencing(nodes[r], d)) \in done_nodes[Frame(r)]
        /\ pc[r] = "returned" => Cardinality(ReleasesOf(r, d)) = 1

\* a successful run with a dataset that one node produces and that is read
\* three times, by two later nodes
C2_Witness ==
    /\ pc[1] = "returned"
    /\ \E d \in Intermediates(nodes[1]) :
          /\ Cardinality(Consumers(nodes[1], d)) = 2
          /\ LoadCountsInit(nodes[1])[d] = 3
          /\ Cardinality(ReleasesOf(1, d)) = 1

\* C3: run_node is called on the nodes in the order of the pipeline, once
\* each, on all of them in a successful run, and on no node before the
\* producers of its inputs.
C3_PipelineOrder ==
    \A r \in active :
        /\ Len(executed[r]) <= Len(nodes[r])
        /\ \A i \in 1..Len(executed[r]) : executed[r][i] = i
        /\ pc[r] = "returned" => Len(executed[r]) = Len(nodes[r])
        /\ \A i \in 1..Len(executed[r]) :
              \A d \in Range(nodes[r][executed[r][i]].inputs) :
                  \A p \in Producers(nodes[r], d) :
                      \E j \in 1..(i - 1) : executed[r][j] = p

\* a successful run of three nodes, the second and the third reading what an
\* earlier one produced
C3_Witness ==
    /\ pc[1] = "returned"
    /\ executed[1] = <<1, 2, 3>>
    /\ nodes[1][2].inputs # << >>
    /\ nodes[1][3].inputs # << >>
    /\ Producers(nodes[1], nodes[1][2].inputs[1]) = {1}
    /\ Producers(nodes[1], nodes[1][3].inputs[1]) = {2}

\* C4: when run_node raises on node k, run_node is called on no node after k
\* and _suggest_resume_scenario is called once, with done_nodes holding the
\* nodes before k and nothing else.
C4_FailureStopsAndReports ==
    \A r \in active : FailingNode(r) # 0 =>
        /\ \A i \in 1..Len(executed[r]) : executed[r][i] <= FailingNode(r)
        /\ Len(reported[r]) <= 1
        /\ pc[r] \in {"raise", "raised", "returned"} =>
              reported[r] = << 1..(FailingNode(r) - 1) >>

\* the second of three nodes has raised and the run is over
C4_Witness ==
    /\ pc[1] = "raised"
    /\ Len(nodes[1]) = 3
    /\ FailingNode(1) = 2
    /\ reported[1] = << {1} >>

\* C5: _run returns only if every run_node call returned, and then
\* _suggest_resume_scenario was never called; otherwise it ends with the very
\* exception run_node raised, after one call of _suggest_resume_scenario.
C5_ReturnOrOriginalFailure ==
    \A r \in active :
        /\ pc[r] \in {"returned", "raised"} <=> result[r] # "none"
        /\ result[r] = "returned" =>
              /\ FailingNode(r) = 0
              /\ done_nodes[Frame(r)] = 1..Len(nodes[r])
              /\ reported[r] = << >>
        /\ result[r] \notin {"none", "returned"} =>
              /\ FailingNode(r) # 0
              /\ result[r] = behaviour[r][FailingNode(r)]
              /\ Len(reported[r]) = 1

\* the run has ended with the exception E2 of its third node
C5_Witness ==
    /\ result[1] = "E2"
    /\ FailingNode(1) = 3

\* the load counts after the nodes before k have completed
CountsBefore(ns, k) ==
    [d \in AllKeys |->
        LoadCountsInit(ns)[d]
          - SumOver([i \in 1..Len(ns) |-> Occurrences(ns[i].inputs, d)],
                    1, k - 1)]

\* C6: once run_node has raised on node k the load counts stay what they
\* were when k started, every release of the run was made while a node before
\* k was the loop's node, and no input of k that was live then is released.
C6_FailureFreezesCleanup ==
    \A r \in active : exc[r] # "none" =>
        /\ load_counts[Frame(r)] = CountsBefore(nodes[r], node[r])
        /\ \A i \in 1..Len(released[r]) :
              released[r][i].by \in 1..(node[r] - 1)
        /\ \A d \in Range(nodes[r][node[r]].inputs) :
              CountsBefore(nodes[r], node[r])[d] >= 1 =>
                  d \notin ReleasedKeys(r)

\* the third node raised: the second one's completion released a dataset,
\* and the third's input, produced inside the pipeline, is retained
C6_Witness ==
    /\ pc[1] = "raised"
    /\ node[1] = 3
    /\ released[1] # << >>
    /\ \E d \in Range(nodes[1][3].inputs) :
          /\ d \in Intermediates(nodes[1])
          /\ d \notin ReleasedKeys(1)

\* run r has just finished the clean-up of a node that completed
NodeCleanedUp(r) == pc[r] = "for" /\ node[r] \in done_nodes[Frame(r)]

\* release(d) was called during the clean-up of node nd
ReleasedBy(r, d, nd) ==
    \E i \in 1..Len(released[r]) :
        released[r][i].key = d /\ released[r][i].by = nd

\* C7 as stated: after a node has completed, each of its outputs whose load
\* count is below 1 has been released by that node's clean-up.
C7_Original ==
    \A r \in active : NodeCleanedUp(r) =>
        \A d \in Range(nodes[r][node[r]].outputs) :
            load_counts[Frame(r)][d] < 1 => ReleasedBy(r, d, node[r])

\* C7 (amended): after a node has completed, an output of it has been
\* released by that node's clean-up exactly if its load count is below 1 and
\* some node of the pipeline lists it as an input, that is, it is not a free
\* output; an output no node ever lists as an input is kept.
C7_UnreadOutputReleasedUnlessFree ==
    \A r \in active : NodeCleanedUp(r) =>
        \A d \in Range(nodes[r][node[r]].outputs) :
            ReleasedBy(r, d, node[r]) <=>
                (load_counts[Frame(r)][d] < 1
                    /\ Consumers(nodes[r], d) # {})

\* a node that reads a dataset has completed, and its output, which no node
\* reads, has load count 0 when the clean-up ends
C7_Witness ==
    /\ NodeCleanedUp(1)
    /\ node[1] = 2
    /\ nodes[1][2].inputs # << >>
    /\ \E d \in Range(nodes[1][2].outputs) :
          /\ load_counts[Frame(1)][d] = 0
          /\ Consumers(nodes[1], d) = {}

\* C8: every release is made by the clean-up of the last node that reads the
\* dataset, and whenever the run is between two nodes or over, every
\* non-boundary dataset whose last reader has completed has been released.
C8_EagerRelease ==
    \A r \in active :
        /\ \A i \in 1..Len(released[r]) :
              released[r][i].by =
                  Max(Consumers(nodes[r], released[r][i].key))
        /\ BetweenNodes(r) =>
              \A d \in Intermediates(nodes[r]) :
                  Max(Consumers(nodes[r], d)) \in done_nodes[Frame(r)] =>
                      ReleasedBy(r, d, Max(Consumers(nodes[r], d)))

\* the third node is about to start and the dataset whose last reader was
\* the second node is already released
C8_Witness ==
    /\ pc[1] = "run_node"
    /\ node[1] = 3
    /\ \E d \in Intermediates(nodes[1]) :
          /\ Max(Consumers(nodes[1], d)) = 2
          /\ ReleasedBy(1, d, 2)

\* C10: in the release log the nodes whose clean-up made the calls appear in
\* non-decreasing pipeline position, each of them a completed node,
\* whatever the order of the keys.
C10_ReleaseOrderFollowsNodes ==
    \A r \in active : \A i, j \in 1..Len(released[r]) :
        i < j =>
            /\ released[r][i].by <= released[r][j].by
            /\ released[r][i].by \in done_nodes[Frame(r)]
            /\ released[r][j].by \in done_nodes[Frame(r)]

\* the greater key was released first, by an earlier node
C10_Witness ==
    /\ Len(released[1]) = 2
    /\ released[1][1].key > released[1][2].key
    /\ released[1][1].by < released[1][2].by

\* s is an initial part of t
IsPrefix(s, t) ==
    Len(s) <= Len(t) /\ \A i \in 1..Len(s) : s[i] = t[i]

\* one of the two logs continues the other
Agree(s, t) == IsPrefix(s, t) \/ IsPrefix(t, s)

Ended(r) == pc[r] \in {"returned", "raised"}

IoResolved(r, i) ==
    /\ \A p \in 1..Len(nodes[r][i].inputs) : <<i, p>> \in loaded[r]
    /\ \A p \in 1..Len(nodes[r][i].outputs) : <<i, p>> \in saved[r]

RECURSIVE AloneInputs(_, _, _, _, _)
AloneInputs(ns, i, p, lc, lg) ==
    IF p > Len(ns[i].inputs)
    THEN <<lc, lg>>
    ELSE LET d == ns[i].inputs[p]
             lc2 == Decrement(lc, d)
         IN  AloneInputs(ns, i, p + 1, lc2,
                         IF InputReleasable(lc2, d, ns)
                         THEN Release(lg, d, i) ELSE lg)

\* the output loop of node i from position p on
RECURSIVE AloneOutputs(_, _, _, _, _)
AloneOutputs(ns, i, p, lc, lg) ==
    IF p > Len(ns[i].outputs)
    THEN <<lc, lg>>
    ELSE LET d == ns[i].outputs[p]
         IN  AloneOutputs(ns, i, p + 1, lc,
                          IF OutputReleasable(lc, d, ns)
                          THEN Release(lg, d, i) ELSE lg)

\* the load counts and the release log of a run of ns on its own, after its
\* first k nodes have completed
RECURSIVE Alone(_, _)
Alone(ns, k) ==
    IF k = 0
    THEN <<LoadCountsInit(ns), << >>>>
    ELSE LET before == Alone(ns, k - 1)
             mid == AloneInputs(ns, k, 1, before[1], before[2])
         IN  AloneOutputs(ns, k, 1, mid[1], mid[2])

\* the number of nodes on which run_node has returned in run r
Completed(r) ==
    Cardinality({i \in 1..Len(behaviour[r]) : behaviour[r][i] = "ok"})

\* run r takes this step
Moves(r) == <<pc[r], ds[r]>>' # <<pc[r], ds[r]>>

\* run r is where a run of its pipeline on its own is after as many nodes
C12_AsAlone(r) ==
    /\ executed[r] = [i \in 1..Len(executed[r]) |-> i]
    /\ (BetweenNodes(r) /\ pc[r] # "start") =>
          /\ load_counts[Frame(r)] = Alone(nodes[r], Completed(r))[1]
          /\ done_nodes[Frame(r)] = 1..Completed(r)
          /\ released[r] = Alone(nodes[r], Completed(r))[2]
    /\ pc[r] \in {"inputs", "outputs"} =>
          /\ IsPrefix(Alone(nodes[r], Completed(r) - 1)[2], released[r])
          /\ IsPrefix(released[r], Alone(nodes[r], Completed(r))[2])

\* C12 (under SpecTwo): in two interleaved runs, of one pipeline or of two,
\* a step of one run leaves the load counts and the done set of the other
\* as they were, and each run calls run_node in the order, and releases the
\* datasets in the sequence, of a run of its pipeline on its own.
C12_RunsArePrivate ==
    /\ [](\A r \in active : C12_AsAlone(r))
    /\ [][\A r \in active : ~Moves(r) =>
              /\ load_counts'[Frame(r)] = load_counts[Frame(r)]
              /\ done_nodes'[Frame(r)] = done_nodes[Frame(r)]]_vars

\* two runs of different pipelines have returned: the first has released a
\* dataset, the second has counted its input down
C12_Witness ==
    /\ active = {1, 2}
    /\ nodes[1] # nodes[2]
    /\ pc[1] = "returned" /\ pc[2] = "returned"
    /\ released[1] # << >>
    /\ \E d \in AllKeys : LoadCountsInit(nodes[2])[d] >= 1
    /\ \A d \in AllKeys : load_counts[Frame(2)][d] = 0

\* the occurrences of d in the inputs lists of the nodes of ns outside done
OccurrencesOutside(ns, done, d) ==
    SumOver([i \in 1..Len(ns) |->
                IF i \in done THEN 0 ELSE Occurrences(ns[i].inputs, d)],
            1, Len(ns))

\* C13: when the loop starts, load_counts[d] is the number of occurrences
\* of d, repeats within one inputs list counted, in the inputs lists of all
\* the nodes; between two node executions, and at the end of the run, it is
\* the number of occurrences of d in the inputs lists of the nodes that have
\* not completed.
C13_LoadCountIsRemainingLoads ==
    \A r \in active : \A d \in AllKeys :
        /\ (pc[r] = "for" /\ iter[r] = 0) =>
              load_counts[Frame(r)][d] = OccurrencesOutside(nodes[r], {}, d)
        /\ (BetweenNodes(r) /\ pc[r] # "start") =>
              load_counts[Frame(r)][d] =
                  OccurrencesOutside(nodes[r], 1..Completed(r), d)

\* the first node, which lists a dataset twice, has completed and a later
\* node still has to load that dataset
C13_Witness ==
    /\ pc[1] = "for"
    /\ Completed(1) = 1
    /\ \E d \in AllKeys :
          /\ Occurrences(nodes[1][1].inputs, d) = 2
          /\ load_counts[Frame(1)][d] = 1

\* C14: done_nodes is exactly the set of the first i nodes of the list,
\* i being the number of nodes completed so far, and it never loses an
\* element; the node run next is the one after the last one run, and the
\* releases are those fixed by the node list and the number of completed
\* nodes alone, whatever done_nodes holds.
C14_DoneSetIsCompletedPrefix ==
    /\ [](\A r \in active : pc[r] # "start" =>
              /\ done_nodes[Frame(r)] = 1..Completed(r)
              /\ BetweenNodes(r) =>
                    released[r] = Alone(nodes[r], Completed(r))[2])
    /\ [][\A r \in active :
              /\ done_nodes[Frame(r)] \subseteq done_nodes'[Frame(r)]
              /\ node'[r] # node[r] => node'[r] = Len(executed[r]) + 1]_vars

\* three nodes have completed, with a release on the way
C14_Witness ==
    /\ pc[1] = "returned"
    /\ done_nodes[Frame(1)] = {1, 2, 3}
    /\ released[1] # << >>

EndedEarly(r) == Ended(r) /\ Completed(r) < Len(nodes[r])

FinishedAll(r) ==
    /\ pc[r] = "returned"
    /\ Completed(r) = Len(nodes[r])
    /\ load_counts[Frame(r)] = Alone(nodes[r], Len(nodes[r]))[1]
    /\ released[r] = Alone(nodes[r], Len(nodes[r]))[2]

\* run r was aborted at the first node on which run_node raised
AbortedAtFirstFailure(r) ==
    /\ pc[r] = "raised"
    /\ FailingNode(r) # 0
    /\ executed[r] = [i \in 1..FailingNode(r) |-> i]
    /\ Completed(r) = FailingNode(r) - 1

\* C17 (under SpecFair, where every call returns or raises): every run
\* ends; it never calls run_node more than len(nodes) times; and when it is
\* over it has either completed and cleaned up every node or was aborted at
\* the first failing node, and takes no further step.
C17_RunEnds ==
    /\ <>(\A r \in active : Ended(r))
    /\ [](\A r \in active :
              /\ Len(executed[r]) <= Len(nodes[r])
              /\ Ended(r) =>
                    /\ FinishedAll(r) \/ AbortedAtFirstFailure(r)
                    /\ ~(FinishedAll(r) /\ AbortedAtFirstFailure(r))
                    /\ ~ENABLED Step(r))

\* the run was aborted at its third and last node: len(nodes) executions
C17_Witness ==
    /\ AbortedAtFirstFailure(1)
    /\ Len(nodes[1]) = 3
    /\ Len(executed[1]) = 3

\* C18: no load count is ever negative, and when _run has returned every
\* load count is 0.
C18_LoadCountNeverNegative ==
    \A r \in active : \A d \in AllKeys :
        /\ load_counts[Frame(r)][d] >= 0
        /\ pc[r] = "returned" => load_counts[Frame(r)][d] = 0

\* the run has returned after counting a dataset down from three loads
C18_Witness ==
    /\ pc[1] = "returned"
    /\ \E d \in AllKeys :
          /\ OccurrencesOutside(nodes[1], {}, d) = 3
          /\ load_counts[Frame(1)][d] = 0

\* C19: every release is made by the clean-up of a node that lists the
\* dataset as an input, never of the node that produces it: the loop over
\* node.outputs releases nothing.
C19_ReleasedByAConsumer ==
    /\ [](\A r \in active : \A k \in 1..Len(released[r]) :
              /\ released[r][k].by \in Consumers(nodes[r], released[r][k].key)
              /\ released[r][k].by \notin
                     Producers(nodes[r], released[r][k].key))
    /\ [][\A r \in active :
              pc[r] = "outputs" => released'[r] = released[r]]_vars

\* the run has returned: the producer of a dataset went through its output
\* loop without a release, a later node that reads the dataset released it
C19_Witness ==
    /\ pc[1] = "returned"
    /\ \E k \in 1..Len(released[1]) :
          \E i \in Producers(nodes[1], released[1][k].key) :
              /\ i < released[1][k].by
              /\ nodes[1][released[1][k].by].outputs # << >>

====
